---- MODULE Spec2Model ----
(***************************************************************************)
(* A model of the crawl engine of website-scraper (src/scraper.py):        *)
(* the page pool (AsyncPagePool), the per-page processor (scrape_page with *)
(* get_page_title / get_page_description) and the frontier controller      *)
(* (scrape_site).                                                          *)
(*                                                                         *)
(* Two specifications share the operators that model the page processor:   *)
(*   Spec         the crawl run of scrape_site over a site drawn from      *)
(*                Sites, with per-dispatch navigation failures;            *)
(*   ExtractSpec  one call of scrape_page on a page whose DOM is drawn     *)
(*                from the bounded set XDoms, stepping through the title   *)
(*                and description extraction.                              *)
(***************************************************************************)
EXTENDS Naturals, Sequences, FiniteSets, TLC

VARIABLES
    \* ---- scrape_site ----
    pc,             \* position of scrape_site
    site,           \* what the browser renders at each URL (the environment)
    max_pages,      \* scrape_site's max_pages
    batch_size,     \* config['scraper']['parallel_processing']['batch_size']
    visited_urls,   \* scrape_site's visited_urls
    urls_to_visit,  \* scrape_site's urls_to_visit
    scraped_data,   \* scrape_site's scraped_data
    current_batch,  \* scrape_site's current_batch
    pages,          \* scrape_site's pages (handles acquired for the batch)
    results,        \* what asyncio.gather collects, by batch position
    idx,            \* position of the acquire loop / of the result loop
    \* ---- AsyncPagePool ----
    pool_size,      \* AsyncPagePool.pool_size
    pool_pages,     \* AsyncPagePool.pages (the idle list)
    closed,         \* handles on which close() has been called
    created,        \* number of browser.new_page() calls that returned
    \* ---- history of the run (not read by the program) ----
    dispatchLog,    \* every URL handed to scrape_page, in order
    batchStart,     \* len(scraped_data) when the current batch was formed
    navLog,         \* by batch position, whether navigation succeeded
    addedLog,       \* every link the result loop added to urls_to_visit
    batchCreated,   \* `created` when the current batch was formed
    \* ---- tasks left behind by the as_completed races ----
    inflight,       \* handles on which a strategy task that lost a race still runs
    \* ---- scheduler.py: run_immediate_scrape ----
    s_pc,           \* position of run_immediate_scrape
    s_name,         \* run_immediate_scrape's website_name ("" for None)
    s_sites,        \* websites_config['websites']
    s_websites,     \* run_immediate_scrape's websites (the jobs to run)
    s_i,            \* position of the loop over the enabled websites
    s_log,          \* what the jobs printed, in order
    \* ---- scroll_to_bottom ----
    sc_pc,          \* position of scroll_to_bottom
    max_scrolls,    \* scroll_to_bottom's max_scrolls
    last_height,    \* scroll_to_bottom's last_height
    new_height,     \* scroll_to_bottom's new_height
    scroll_count,   \* scroll_to_bottom's scroll_count
    scrolls,        \* history: every measured scrollHeight, the first before any scroll
                    \* measured before and after each
    \* ---- ExtractSpec: one scrape_page call ----
    x_pc, x_url, x_nav, x_page, x_title, x_desc, x_data

vars == <<pc, site, max_pages, batch_size, visited_urls, urls_to_visit,
          scraped_data, current_batch, pages, results, idx,
          pool_size, pool_pages, closed, created,
          dispatchLog, batchStart, navLog, addedLog, batchCreated, inflight,
          s_pc, s_name, s_sites, s_websites, s_i, s_log,
          sc_pc, max_scrolls, last_height, new_height, scroll_count, scrolls,
          x_pc, x_url, x_nav, x_page, x_title, x_desc, x_data>>

crawlVars == <<pc, site, max_pages, batch_size, visited_urls, urls_to_visit,
               scraped_data, current_batch, pages, results, idx,
               pool_size, pool_pages, closed, created,
               dispatchLog, batchStart, navLog, addedLog, batchCreated,
               inflight>>

extractVars == <<x_pc, x_url, x_nav, x_page, x_title, x_desc, x_data>>

schedVars == <<s_pc, s_name, s_sites, s_websites, s_i, s_log>>

scrollVars == <<sc_pc, max_scrolls, last_height, new_height, scroll_count, scrolls>>

(***************************************************************************)
(* Bounds of the model.                                                    *)
(***************************************************************************)
MaxPagesBound == 4      \* max_pages is drawn from 1..MaxPagesBound
MaxBatchSize == 3       \* batch_size is drawn from 1..MaxBatchSize
MaxPoolSize == 2        \* pool_size is drawn from 1..MaxPoolSize
ScenarioMaxPages == 10  \* the max_pages of the scenario run, also drawn

(***************************************************************************)
(* URLs.  A URL is its scheme, its network location and its path;          *)
(* urlparse(u).netloc is the host field.                                   *)
(***************************************************************************)
Url(s, h, p) == [scheme |-> s, host |-> h, path |-> p]

UrlA == Url("https", "x.test", "/a")
UrlB == Url("https", "x.test", "/b")
UrlC == Url("https", "x.test", "/c")
UrlD == Url("https", "x.test", "/d")
UrlHB == Url("http", "x.test", "/b")
UrlYC == Url("https", "y.test", "/c")
UrlMail == Url("mailto", "", "me@x.test")

\* Every URL a browser can be sent to.
Urls == {UrlA, UrlB, UrlC, UrlD, UrlHB, UrlYC}

netloc(u) == u.host

\* scheme://host, the spec's notion of a domain.
SchemeHost(u) == <<u.scheme, u.host>>

\* absolute_url.startswith(("http://", "https://"))
IsHttp(u) == u.scheme \in {"http", "https"}

\* The URL as the string page.url.
UrlText(u) == <<u.scheme, "://", u.host, u.path>>

(***************************************************************************)
(* Text and the outcomes of a DOM read.  A text is a sequence of           *)
(* characters; a read yields a text, None, or throws.                      *)
(***************************************************************************)
WS == " "

Val(s) == [k |-> "val", v |-> s]
NoneV == [k |-> "none", v |-> <<>>]
Throw == [k |-> "throw", v |-> <<>>]
Raise == [k |-> "raise", v |-> <<>>]

RECURSIVE lstrip(_)
lstrip(s) == IF s # <<>> /\ Head(s) = WS THEN lstrip(Tail(s)) ELSE s

RECURSIVE rstrip(_)
rstrip(s) ==
    IF s # <<>> /\ s[Len(s)] = WS THEN rstrip(SubSeq(s, 1, Len(s) - 1)) ELSE s

\* str.strip()
strip(s) == rstrip(lstrip(s))

\* Python's `x and x.strip()`: x is a non-empty string with a non-blank character.
Truthy(r) == r.k = "val" /\ strip(r.v) # <<>>

(***************************************************************************)
(* A rendered page, as the browser presents it:                            *)
(*   finalUrl  page.url after navigation (differs from the requested URL   *)
(*             when the server redirects)                                  *)
(*   hrefs     urljoin(url, href) of every anchor with a non-empty href    *)
(*   title     page.title()                                                *)
(*   h1count   page.locator('h1').count()                                  *)
(*   h1text    page.locator('h1').first.text_content()                     *)
(*   ogTitle, twTitle, descStd, descOg, descTw                             *)
(*             get_attribute('content') of the meta tag (it throws when    *)
(*             the tag is missing: the locator times out)                  *)
(*   pcount, ptext   the same for the first paragraph                      *)
(*   metaScan  the content attributes of meta[name*="description"], or     *)
(*             <<Throw>> when counting them throws                         *)
(***************************************************************************)
Count(n) == [k |-> "val", n |-> n]
CountThrow == [k |-> "throw", n |-> 0]

\* Permutations of 1..n, the orders in which n racing tasks can complete.
Perms(n) == {f \in [1..n -> 1..n] : \A i, j \in 1..n : i # j => f[i] # f[j]}

\* _get_title_from_meta / _get_description_from_meta: the stripped content,
\* None when it is missing or blank, and None when reading it throws.
get_from_meta(attr) ==
    IF attr.k = "throw" THEN NoneV
    ELSE IF Truthy(attr) THEN Val(strip(attr.v))
    ELSE NoneV

\* The loop over asyncio.as_completed(tasks): the tasks' outcomes are visited
\* in completion order; the first non-blank result is returned stripped, a
\* task that throws is logged and skipped.
RECURSIVE FirstCompleted(_, _, _)
FirstCompleted(outs, order, i) ==
    IF i > Len(order) THEN NoneV
    ELSE LET r == outs[order[i]]
         IN IF r.k # "throw" /\ Truthy(r) THEN Val(strip(r.v))
            ELSE FirstCompleted(outs, order, i + 1)

\* The fallback tasks of get_page_title, or Raise when building the list or
\* handing it to as_completed raises: count() throwing propagates, and with
\* no h1 the list holds None, which as_completed rejects with a TypeError.
TitleTasks(pg) ==
    IF pg.h1count.k = "throw" THEN Raise
    ELSE IF pg.h1count.n = 0 THEN Raise
    ELSE Val(<<pg.h1text, get_from_meta(pg.ogTitle), get_from_meta(pg.twTitle)>>)

get_page_title(pg, order) ==
    IF pg.title.k # "throw" /\ Truthy(pg.title) THEN Val(strip(pg.title.v))
    ELSE LET tasks == TitleTasks(pg)
         IN IF tasks.k = "raise" THEN Raise
            ELSE LET r == FirstCompleted(tasks.v, order, 1)
                 IN IF r.k = "val" THEN r ELSE Val(UrlText(pg.finalUrl))

\* The tasks of get_page_description; as for the title, count() throwing
\* propagates and a page with no paragraph puts None in the list.
DescriptionTasks(pg) ==
    IF pg.pcount.k = "throw" THEN Raise
    ELSE IF pg.pcount.n = 0 THEN Raise
    ELSE Val(<<get_from_meta(pg.descStd), get_from_meta(pg.descOg),
               get_from_meta(pg.descTw), pg.ptext>>)

\* The last resort of get_page_description: the first non-blank content of
\* the meta tags whose name contains "description"; any throw ends the scan.
RECURSIVE MetaScan(_, _)
MetaScan(tags, i) ==
    IF i > Len(tags) THEN NoneV
    ELSE IF tags[i].k = "throw" THEN NoneV
    ELSE IF Truthy(tags[i]) THEN Val(strip(tags[i].v))
    ELSE MetaScan(tags, i + 1)

get_page_description(pg, order) ==
    LET tasks == DescriptionTasks(pg)
    IN IF tasks.k = "raise" THEN Raise
       ELSE LET r == FirstCompleted(tasks.v, order, 1)
            IN IF r.k = "val" THEN r ELSE MetaScan(pg.metaScan, 1)

\* scrape_page returning None.
NoRecord == [k |-> "none"]

\* The links of the page: the joined hrefs that start with http:// or
\* https://, as a set (the list scrape_page returns is this set, sorted).
PageLinks(pg) == {h \in pg.hrefs : IsHttp(h)}

\* The dict scrape_page builds and returns.
PageRecord(pg, title, desc) ==
    [k |-> "rec", url |-> pg.finalUrl, title |-> title.v,
     description |-> desc, links |-> PageLinks(pg)]

\* The orders in which the racing tasks of the title (3) and of the
\* description (4) can complete.
TitleOrders == Perms(3)
DescOrders == Perms(4)

\* What get_page_title / get_page_description can return on a page, over
\* every completion order of their tasks.
TitleOutcomes(pg) == {get_page_title(pg, o) : o \in TitleOrders}
DescOutcomes(pg) == {get_page_description(pg, o) : o \in DescOrders}

\* The position in the completion order of the task whose result the
\* as_completed loop returns, 0 when no task yields one.
RECURSIVE WinnerPos(_, _, _)
WinnerPos(outs, order, i) ==
    IF i > Len(order) THEN 0
    ELSE IF outs[order[i]].k # "throw" /\ Truthy(outs[order[i]]) THEN i
    ELSE WinnerPos(outs, order, i + 1)

\* The loop returned while tasks of the list had not completed yet.
HasLosers(tasks, order) ==
    /\ tasks.k = "val"
    /\ WinnerPos(tasks.v, order, 1) > 0
    /\ WinnerPos(tasks.v, order, 1) < Len(order)

\* What get_page_title / get_page_description return on a page and whether
\* they leave tasks running, over every completion order.
TitleRaces(pg) ==
    {[out |-> get_page_title(pg, o),
      late |-> ~(pg.title.k # "throw" /\ Truthy(pg.title))
                  /\ HasLosers(TitleTasks(pg), o)] : o \in TitleOrders}

DescRaces(pg) ==
    {[out |-> get_page_description(pg, o),
      late |-> HasLosers(DescriptionTasks(pg), o)] : o \in DescOrders}

\* scrape_page returns with tasks of its races still running on the page.
LeavesTasks(nav, tr, dr) ==
    nav /\ (tr.late \/ (tr.out.k # "raise" /\ dr.late))

\* scrape_page(url, page): nav is whether page.goto and the wait for network
\* idle succeed, t and d are what get_page_title and get_page_description
\* return or raise.  Any exception, from navigation or from the extraction
\* of the title or the description, ends in `return None`.
scrape_page(url, pg, nav, t, d) ==
    IF ~nav THEN NoRecord
    ELSE IF t.k = "raise" \/ d.k = "raise" THEN NoRecord
    ELSE PageRecord(pg, t, d)

(***************************************************************************)
(* The sites of the crawl runs.  A site gives the rendered page of every   *)
(* URL; whether a navigation succeeds is decided at each dispatch.         *)
(***************************************************************************)
T(c) == Val(<<WS, c, WS>>)

\* A page with a title tag and a standard description.
GoodDom ==
    [title |-> T("T"), h1count |-> Count(1), h1text |-> T("H"),
     ogTitle |-> Throw, twTitle |-> Throw,
     descStd |-> T("D"), descOg |-> Throw, descTw |-> Throw,
     pcount |-> Count(1), ptext |-> T("P"), metaScan |-> <<T("D")>>]

\* A page with no title tag and no h1, but an og:title.
OgOnlyDom == [GoodDom EXCEPT !.title = Val(<<>>), !.h1count = Count(0),
                             !.h1text = Throw, !.ogTitle = T("O")]

\* A page with an empty title tag, an empty h1 and no description.
BareDom == [GoodDom EXCEPT !.title = Val(<<>>), !.h1text = Val(<<>>),
                           !.descStd = Throw, !.ptext = Val(<<WS>>),
                           !.metaScan = <<>>]

Page(final, hrefs, dom) == [finalUrl |-> final, hrefs |-> hrefs] @@ dom

\* A site whose seed links widely; http://x.test/b and /c redirect to /b.
SiteWide ==
    [u \in Urls |->
        CASE u = UrlA -> Page(UrlA, {UrlB, UrlC, UrlHB, UrlMail, UrlYC}, GoodDom)
          [] u = UrlB -> Page(UrlB, {UrlD, UrlA}, GoodDom)
          [] u = UrlC -> Page(UrlB, {UrlD, UrlA}, GoodDom)
          [] u = UrlHB -> Page(UrlB, {UrlD, UrlA}, GoodDom)
          [] u = UrlD -> Page(UrlD, {UrlA, UrlYC}, BareDom)
          [] u = UrlYC -> Page(UrlYC, {UrlA}, GoodDom)]

\* The site of the spec's scenario: /a links to /b, to itself and to y.test.
SiteScenario ==
    [u \in Urls |->
        CASE u = UrlA -> Page(UrlA, {UrlB, UrlA, UrlYC}, GoodDom)
          [] u = UrlB -> Page(UrlB, {}, GoodDom)
          [] OTHER -> Page(u, {}, GoodDom)]

\* A chain /a -> /b -> /c -> /d, where /c has neither a title tag nor an h1.
SiteChain ==
    [u \in Urls |->
        CASE u = UrlA -> Page(UrlA, {UrlB}, GoodDom)
          [] u = UrlB -> Page(UrlB, {UrlC, UrlD, UrlB}, BareDom)
          [] u = UrlC -> Page(UrlC, {UrlD}, OgOnlyDom)
          [] u = UrlD -> Page(UrlD, {UrlHB, UrlA}, GoodDom)
          [] OTHER -> Page(u, {}, GoodDom)]

Sites == {SiteWide, SiteScenario, SiteChain}

\* The seed of the crawl runs.
start_url == UrlA

(***************************************************************************)
(* scrape_site: the decisions of the controller, as operators.             *)
(***************************************************************************)
\* LoopGuard leaving the loop one record short of the budget.
LoopGuard_StopsEarly(pending, scraped, maxp) ==
    pending # {} /\ Len(scraped) + 1 < maxp

\* while urls_to_visit and len(scraped_data) < max_pages
LoopGuard(pending, scraped, maxp) == pending # {} /\ Len(scraped) < maxp

\* BatchGuard with the budget test off by one (<= for <).
BatchGuard_OffByOne(batch, pending, scraped, bsize, maxp) ==
    /\ Len(batch) < bsize
    /\ pending # {}
    /\ Len(scraped) + Len(batch) <= maxp

\* while len(current_batch) < batch_size and urls_to_visit
\*       and len(scraped_data) + len(current_batch) < max_pages
BatchGuard(batch, pending, scraped, bsize, maxp) ==
    /\ Len(batch) < bsize
    /\ pending # {}
    /\ Len(scraped) + Len(batch) < maxp

\* MarkVisited that forgets to add the URL.
MarkVisited_Forgets(visited, url) == visited

\* visited_urls.add(url)
MarkVisited(visited, url) == visited \cup {url}

\* SameDomain that accepts every link.
SameDomain_Any(link, start) == TRUE

\* link_domain == start_domain
SameDomain(link, start) == netloc(link) = netloc(start)

\* LinksToAdd without the `link not in visited_urls` test.
LinksToAdd_NoVisitedCheck(result, visited) ==
    {l \in result.links : netloc(l) = netloc(start_url)}

\* The links of a result that the result loop adds to urls_to_visit.
LinksToAdd(result, visited) ==
    {l \in result.links : SameDomain(l, start_url) /\ l \notin visited}

\* AppendResult that appends whatever the task returned, None included.
AppendResult_KeepsNone(scraped, result) == Append(scraped, result)

\* scraped_data after the result loop has handled one result.
AppendResult(scraped, result) ==
    IF result.k = "rec" THEN Append(scraped, result) ELSE scraped

Pending == [k |-> "pending"]

(***************************************************************************)
(* The state after scrape_site has built the pool object and before        *)
(* page_pool.initialize() runs.                                            *)
(***************************************************************************)
\* run_immediate_scrape and scroll_to_bottom are not running.
SchedIdle ==
    /\ s_pc = "off"
    /\ s_name = ""
    /\ s_sites = <<>>
    /\ s_websites = <<>>
    /\ s_i = 0
    /\ s_log = <<>>

ScrollIdle ==
    /\ sc_pc = "off"
    /\ max_scrolls = 0
    /\ last_height = 0
    /\ new_height = 0
    /\ scroll_count = 0
    /\ scrolls = <<>>

XIdle ==
    /\ x_pc = "off"
    /\ x_url = start_url
    /\ x_nav = FALSE
    /\ x_page = Page(start_url, {}, GoodDom)
    /\ x_title = NoneV
    /\ x_desc = NoneV
    /\ x_data = NoRecord

Init ==
    /\ pc = "initialize"
    /\ site \in Sites
    /\ \/ max_pages \in 1..MaxPagesBound
       \/ max_pages = ScenarioMaxPages /\ site = SiteScenario
    /\ batch_size \in 1..MaxBatchSize
    /\ pool_size \in 1..MaxPoolSize
    /\ visited_urls = {}
    /\ urls_to_visit = {}
    /\ scraped_data = <<>>
    /\ current_batch = <<>>
    /\ pages = <<>>
    /\ results = <<>>
    /\ idx = 0
    /\ pool_pages = <<>>
    /\ closed = {}
    /\ created = 0
    /\ dispatchLog = <<>>
    /\ batchStart = 0
    /\ navLog = <<>>
    /\ addedLog = {}
    /\ batchCreated = 0
    /\ inflight = {}
    /\ XIdle
    /\ SchedIdle
    /\ ScrollIdle

frontierVars == <<visited_urls, urls_to_visit, scraped_data, current_batch>>
poolVars == <<pool_pages, closed, created>>
configVars == <<site, max_pages, batch_size, pool_size>>
historyVars == <<dispatchLog, batchStart, navLog, addedLog>>

(***************************************************************************)
(* AsyncPagePool.initialize: one browser.new_page() per step.              *)
(***************************************************************************)
InitializePage ==
    /\ pc = "initialize"
    /\ Len(pool_pages) < pool_size
    /\ created' = created + 1
    /\ pool_pages' = Append(pool_pages, created + 1)
    /\ UNCHANGED <<pc, configVars, frontierVars, pages, results, idx, closed,
                   historyVars, extractVars, batchCreated, inflight, schedVars,
                   scrollVars>>

\* browser.new_page() fails during initialize(): the call is before the
\* try block of scrape_site, so the error leaves scrape_site at once.
InitializeFails ==
    /\ pc = "initialize"
    /\ Len(pool_pages) < pool_size
    /\ pc' = "crashed"
    /\ UNCHANGED <<configVars, frontierVars, pages, results, idx, poolVars,
                   historyVars, extractVars, batchCreated, inflight, schedVars,
                   scrollVars>>

\* The pool is full: scrape_site enters the try block and sets up the frontier.
EnterTry ==
    /\ pc = "initialize"
    /\ Len(pool_pages) = pool_size
    /\ visited_urls' = {}
    /\ urls_to_visit' = {start_url}
    /\ scraped_data' = <<>>
    /\ pc' = "loop"
    /\ UNCHANGED <<configVars, current_batch, pages, results, idx, poolVars,
                   historyVars, extractVars, batchCreated, inflight, schedVars,
                   scrollVars>>

(***************************************************************************)
(* The outer loop of scrape_site.                                          *)
(***************************************************************************)
LoopHead ==
    /\ pc = "loop"
    /\ IF LoopGuard(urls_to_visit, scraped_data, max_pages)
       THEN /\ current_batch' = <<>>
            /\ batchStart' = Len(scraped_data)
            /\ pc' = "batching"
       ELSE /\ pc' = "cleanup"
            /\ UNCHANGED <<current_batch, batchStart>>
    /\ UNCHANGED <<configVars, visited_urls, urls_to_visit, scraped_data, pages,
                   results, idx, poolVars, dispatchLog, navLog, addedLog,
                   extractVars, batchCreated, inflight, schedVars,
                   scrollVars>>

\* One iteration of the inner loop: urls_to_visit.pop() takes an arbitrary
\* element; it joins the batch and visited_urls unless already visited.
PopUrl ==
    /\ pc = "batching"
    /\ BatchGuard(current_batch, urls_to_visit, scraped_data, batch_size, max_pages)
    /\ \E url \in urls_to_visit :
          /\ urls_to_visit' = urls_to_visit \ {url}
          /\ IF url \notin visited_urls
             THEN /\ current_batch' = Append(current_batch, url)
                  /\ visited_urls' = MarkVisited(visited_urls, url)
             ELSE UNCHANGED <<current_batch, visited_urls>>
    /\ UNCHANGED <<pc, configVars, scraped_data, pages, results, idx, poolVars,
                   historyVars, extractVars, batchCreated, inflight, schedVars,
                   scrollVars>>

\* The inner loop has ended: `if not current_batch: break`, else the
\* acquisition loop starts with empty tasks and pages.
BatchFormed ==
    /\ pc = "batching"
    /\ ~BatchGuard(current_batch, urls_to_visit, scraped_data, batch_size, max_pages)
    /\ IF current_batch = <<>>
       THEN /\ pc' = "cleanup"
            /\ UNCHANGED <<pages, results, idx, navLog, batchCreated>>
       ELSE /\ pc' = "acquire"
            /\ batchCreated' = created
            /\ pages' = <<>>
            /\ results' = [i \in 1..Len(current_batch) |-> Pending]
            /\ navLog' = [i \in 1..Len(current_batch) |-> FALSE]
            /\ idx' = 1
    /\ UNCHANGED <<configVars, frontierVars, poolVars, dispatchLog, batchStart,
                   addedLog, extractVars, inflight, schedVars,
                   scrollVars>>

(***************************************************************************)
(* page_pool.get_page() for the next URL of the batch.                     *)
(***************************************************************************)
\* An idle page exists: self.pages.pop().
GetPageIdle ==
    /\ pc = "acquire"
    /\ idx <= Len(current_batch)
    /\ pool_pages # <<>>
    /\ pages' = Append(pages, pool_pages[Len(pool_pages)])
    /\ pool_pages' = SubSeq(pool_pages, 1, Len(pool_pages) - 1)
    /\ idx' = idx + 1
    /\ UNCHANGED <<pc, configVars, frontierVars, results, closed, created,
                   historyVars, extractVars, batchCreated, inflight, schedVars,
                   scrollVars>>

\* GetPageNew that waits for capacity: no page is created beyond pool_size.
GetPageNew_Blocks ==
    /\ pc = "acquire"
    /\ idx <= Len(current_batch)
    /\ pool_pages = <<>>
    /\ created < pool_size
    /\ created' = created + 1
    /\ pages' = Append(pages, created + 1)
    /\ idx' = idx + 1
    /\ UNCHANGED <<pc, configVars, frontierVars, results, pool_pages, closed,
                   historyVars, extractVars, batchCreated, inflight, schedVars,
                   scrollVars>>

\* No idle page: browser.new_page() returns a new one.
GetPageNew ==
    /\ pc = "acquire"
    /\ idx <= Len(current_batch)
    /\ pool_pages = <<>>
    /\ created' = created + 1
    /\ pages' = Append(pages, created + 1)
    /\ idx' = idx + 1
    /\ UNCHANGED <<pc, configVars, frontierVars, results, pool_pages, closed,
                   historyVars, extractVars, batchCreated, inflight, schedVars,
                   scrollVars>>

\* No idle page and browser.new_page() fails: the error leaves the loop and
\* the finally block runs.
GetPageFails ==
    /\ pc = "acquire"
    /\ idx <= Len(current_batch)
    /\ pool_pages = <<>>
    /\ pc' = "cleanup_error"
    /\ UNCHANGED <<configVars, frontierVars, pages, results, idx, poolVars,
                   historyVars, extractVars, batchCreated, inflight, schedVars,
                   scrollVars>>

\* asyncio.gather(*tasks, return_exceptions=True) starts the batch's tasks.
Gather ==
    /\ pc = "acquire"
    /\ idx > Len(current_batch)
    /\ pc' = "gather"
    /\ dispatchLog' = dispatchLog \o current_batch
    /\ UNCHANGED <<configVars, frontierVars, pages, results, idx, poolVars,
                   batchStart, navLog, addedLog, extractVars, batchCreated, inflight, schedVars,
                   scrollVars>>

\* One task of the batch runs scrape_page to its end; the tasks end in any
\* order.  When a race of the page returned before its last task had
\* completed, the tasks left behind may still be running on the task's
\* handle when scrape_page returns: nothing cancels or awaits them.  With
\* `followed`, inflight records the handles such tasks still read.
TaskEnds(followed) ==
    /\ pc = "gather"
    /\ \E i \in 1..Len(current_batch) :
          /\ results[i] = Pending
          /\ \E nav \in BOOLEAN,
                tr \in TitleRaces(site[current_batch[i]]),
                dr \in DescRaces(site[current_batch[i]]) :
                /\ results' = [results EXCEPT ![i] =
                      scrape_page(current_batch[i], site[current_batch[i]],
                                  nav, tr.out, dr.out)]
                /\ navLog' = [navLog EXCEPT ![i] = nav]
                /\ inflight' =
                      IF followed /\ LeavesTasks(nav, tr, dr)
                      THEN inflight \cup {pages[i]}
                      ELSE inflight
    /\ UNCHANGED <<pc, configVars, frontierVars, pages, idx, poolVars,
                   dispatchLog, batchStart, addedLog, extractVars, batchCreated,
                   schedVars, scrollVars>>

\* The crawl as the controller sees it: the tasks left behind by the races
\* are not followed.
TaskDone == TaskEnds(FALSE)

\* The same step, following the tasks left behind.
TaskDoneRace == TaskEnds(TRUE)

\* A strategy task that lost its race ends (its read returns or times out).
LoserEnds ==
    /\ \E h \in inflight : inflight' = inflight \ {h}
    /\ UNCHANGED <<pc, configVars, frontierVars, pages, results, idx, poolVars,
                   historyVars, extractVars, batchCreated, schedVars, scrollVars>>

\* gather returns once every task has ended.
GatherReturns ==
    /\ pc = "gather"
    /\ \A i \in 1..Len(current_batch) : results[i] # Pending
    /\ pc' = "results"
    /\ idx' = 1
    /\ UNCHANGED <<configVars, frontierVars, pages, results, poolVars,
                   historyVars, extractVars, batchCreated, inflight, schedVars,
                   scrollVars>>

(***************************************************************************)
(* One iteration of the result loop: return_page(page), then the result    *)
(* is appended and its links are added to urls_to_visit.                   *)
(***************************************************************************)
\* ReturnPage with the capacity test off by one (<= for <).
ReturnPage_OffByOne(idle, cl, page, size) ==
    IF Len(idle) <= size
    THEN [idle |-> Append(idle, page), closed |-> cl]
    ELSE [idle |-> idle, closed |-> cl \cup {page}]

\* ReturnPage that never closes a page.
ReturnPage_KeepsAll(idle, cl, page, size) ==
    [idle |-> Append(idle, page), closed |-> cl]

\* AsyncPagePool.return_page: the idle list and the closed pages afterwards.
ReturnPage(idle, cl, page, size) ==
    IF Len(idle) < size
    THEN [idle |-> Append(idle, page), closed |-> cl]
    ELSE [idle |-> idle, closed |-> cl \cup {page}]

HandleResult ==
    /\ pc = "results"
    /\ idx <= Len(current_batch)
    /\ LET r == ReturnPage(pool_pages, closed, pages[idx], pool_size)
           result == results[idx]
           new == IF result.k = "rec" THEN LinksToAdd(result, visited_urls) ELSE {}
       IN /\ pool_pages' = r.idle
          /\ closed' = r.closed
          /\ scraped_data' = AppendResult(scraped_data, result)
          /\ urls_to_visit' = urls_to_visit \cup new
          /\ addedLog' = addedLog \cup new
    /\ idx' = idx + 1
    /\ pc' = IF idx = Len(current_batch) THEN "loop" ELSE "results"
    /\ UNCHANGED <<configVars, visited_urls, current_batch, pages, results,
                   created, dispatchLog, batchStart, navLog, extractVars, batchCreated, inflight, schedVars,
                   scrollVars>>

(***************************************************************************)
(* The finally block: page_pool.cleanup() closes every idle page, then     *)
(* browser.close() ends the browser and with it every read still in       *)
(* flight.                                                                 *)
(***************************************************************************)
Cleanup ==
    /\ pc \in {"cleanup", "cleanup_error"}
    /\ closed' = closed \cup {pool_pages[i] : i \in 1..Len(pool_pages)}
    /\ pool_pages' = <<>>
    /\ pc' = IF pc = "cleanup" THEN "done" ELSE "failed"
    /\ inflight' = {}
    /\ UNCHANGED <<configVars, frontierVars, pages, results, idx, created,
                   historyVars, extractVars, batchCreated, schedVars,
                   scrollVars>>

Next ==
    \/ InitializePage
    \/ InitializeFails
    \/ EnterTry
    \/ LoopHead
    \/ PopUrl
    \/ BatchFormed
    \/ GetPageIdle
    \/ GetPageNew
    \/ GetPageFails
    \/ Gather
    \/ TaskDone
    \/ GatherReturns
    \/ HandleResult
    \/ Cleanup

Spec == Init /\ [][Next]_vars

\* The crawl together with the tasks its races leave behind.
RaceNext ==
    \/ InitializePage
    \/ InitializeFails
    \/ EnterTry
    \/ LoopHead
    \/ PopUrl
    \/ BatchFormed
    \/ GetPageIdle
    \/ GetPageNew
    \/ GetPageFails
    \/ Gather
    \/ TaskDoneRace
    \/ LoserEnds
    \/ GatherReturns
    \/ HandleResult
    \/ Cleanup

RaceSpec == Init /\ [][RaceNext]_vars

(***************************************************************************)
(* ExtractSpec: one call of scrape_page(x_url, page) on a page drawn from  *)
(* XPages, with the crawl controller idle.                                 *)
(***************************************************************************)
XTitleParts ==
    [title : {Val(<<>>), T("T"), Throw},
     h1count : {Count(0), Count(1), CountThrow},
     h1text : {NoneV, T("H"), Throw},
     ogTitle : {T("O"), Val(<<WS>>), Throw},
     twTitle : {T("W"), Throw}]

XDescParts ==
    [descStd : {T("D"), Throw},
     descOg : {T("G"), NoneV},
     descTw : {Val(<<WS, WS>>), Throw},
     pcount : {Count(0), Count(1), CountThrow},
     ptext : {T("P"), Val(<<>>)},
     metaScan : {<<>>, <<Throw>>, <<Val(<<WS>>), T("M")>>}]

XDoms == {tp @@ dp : tp \in XTitleParts, dp \in XDescParts}

XPages == {Page(UrlA, {UrlB, UrlMail, UrlYC}, dom) : dom \in XDoms}

CrawlIdle ==
    /\ pc = "off"
    /\ site = SiteScenario
    /\ max_pages = 1
    /\ batch_size = 1
    /\ pool_size = 1
    /\ visited_urls = {}
    /\ urls_to_visit = {}
    /\ scraped_data = <<>>
    /\ current_batch = <<>>
    /\ pages = <<>>
    /\ results = <<>>
    /\ idx = 0
    /\ pool_pages = <<>>
    /\ closed = {}
    /\ created = 0
    /\ dispatchLog = <<>>
    /\ batchStart = 0
    /\ navLog = <<>>
    /\ addedLog = {}
    /\ batchCreated = 0
    /\ inflight = {}

XInit ==
    /\ CrawlIdle
    /\ SchedIdle
    /\ ScrollIdle
    /\ x_pc = "goto"
    /\ x_url = UrlA
    /\ x_nav \in BOOLEAN
    /\ x_page \in XPages
    /\ x_title = NoneV
    /\ x_desc = NoneV
    /\ x_data = NoRecord

\* page.goto(url) and the wait for network idle.
XGoto ==
    /\ x_pc = "goto"
    /\ IF x_nav
       THEN /\ x_pc' = "title"
            /\ UNCHANGED x_data
       ELSE /\ x_pc' = "done"
            /\ x_data' = scrape_page(x_url, x_page, FALSE, x_title, x_desc)
    /\ UNCHANGED <<x_url, x_nav, x_page, x_title, x_desc, crawlVars, schedVars,
                   scrollVars>>

\* "title": await get_page_title(page)
XTitle ==
    /\ x_pc = "title"
    /\ \E t \in TitleOutcomes(x_page) :
          /\ x_title' = t
          /\ IF t.k = "raise"
             THEN /\ x_pc' = "done"
                  /\ x_data' = scrape_page(x_url, x_page, TRUE, t, x_desc)
             ELSE /\ x_pc' = "description"
                  /\ UNCHANGED x_data
    /\ UNCHANGED <<x_url, x_nav, x_page, x_desc, crawlVars, schedVars,
                   scrollVars>>

\* "description": await get_page_description(page)
XDescription ==
    /\ x_pc = "description"
    /\ \E d \in DescOutcomes(x_page) :
          /\ x_desc' = d
          /\ IF d.k = "raise"
             THEN /\ x_pc' = "done"
                  /\ x_data' = scrape_page(x_url, x_page, TRUE, x_title, d)
             ELSE /\ x_pc' = "return"
                  /\ UNCHANGED x_data
    /\ UNCHANGED <<x_url, x_nav, x_page, x_title, crawlVars, schedVars,
                   scrollVars>>

\* The links are harvested and the dict is returned.
XReturn ==
    /\ x_pc = "return"
    /\ x_data' = scrape_page(x_url, x_page, TRUE, x_title, x_desc)
    /\ x_pc' = "done"
    /\ UNCHANGED <<x_url, x_nav, x_page, x_title, x_desc, crawlVars, schedVars,
                   scrollVars>>

XNext ==
    \/ XGoto
    \/ XTitle
    \/ XDescription
    \/ XReturn

ExtractSpec == XInit /\ [][XNext]_vars

(***************************************************************************)
(* Properties of the crawl run (Spec).                                     *)
(***************************************************************************)
Range(seq) == {seq[i] : i \in 1..Len(seq)}

NoDuplicates(seq) == \A i, j \in 1..Len(seq) : i # j => seq[i] # seq[j]

\* The batch positions whose task returned a record.
Succeeded == {i \in 1..Len(results) : results[i].k = "rec"}

\* The result loop has handled batch position i.
Handled(i) == pc \in {"results", "loop"} /\ i \in 1..Len(results) /\ i < idx

\* C1: the number of records in scraped_data never exceeds max_pages, in
\* every state of the run and at its end.
C1_ResultWithinBudget == Len(scraped_data) <= max_pages

\* C1 witness: a run ended by the budget, with work left in urls_to_visit.
C1_Witness ==
    /\ pc = "done"
    /\ Len(scraped_data) = max_pages
    /\ max_pages >= 2
    /\ urls_to_visit # {}

\* C2: |visited_urls| <= max_pages in every state, also when dispatched
\* URLs yield no record.
C2_VisitedWithinBudget == Cardinality(visited_urls) <= max_pages

\* C3 as stated: only links with the seed's scheme://host are ever added to
\* urls_to_visit or visited, and a handled result's unvisited link is in
\* urls_to_visit iff its scheme://host is the seed's.
C3_SchemeHostScope ==
    /\ \A l \in urls_to_visit \cup visited_urls \cup addedLog :
          SchemeHost(l) = SchemeHost(start_url)
    /\ \A i \in 1..Len(results) :
          Handled(i) /\ results[i].k = "rec" =>
             \A l \in results[i].links :
                l \notin visited_urls =>
                   (l \in urls_to_visit <=> SchemeHost(l) = SchemeHost(start_url))

\* C3 amended: the scope is the network location (urlparse(...).netloc)
\* alone, whatever the scheme: only links with the seed's netloc are ever
\* added to urls_to_visit or visited, and a handled result's unvisited
\* link is in urls_to_visit iff its netloc is the seed's.
C3_NetlocScope ==
    /\ \A l \in urls_to_visit \cup visited_urls \cup addedLog :
          netloc(l) = netloc(start_url)
    /\ \A i \in 1..Len(results) :
          Handled(i) /\ results[i].k = "rec" =>
             \A l \in results[i].links :
                l \notin visited_urls =>
                   (l \in urls_to_visit <=> netloc(l) = netloc(start_url))

\* C3 witness: a handled result linked to http://x.test/b and to
\* https://y.test/c; the first was added, the second dropped.
C3_Witness ==
    \E i \in 1..Len(results) :
       /\ Handled(i)
       /\ results[i].k = "rec"
       /\ {UrlHB, UrlYC} \subseteq results[i].links
       /\ UrlHB \in urls_to_visit
       /\ UrlHB \in addedLog
       /\ UrlYC \notin urls_to_visit \cup visited_urls

\* C4: no URL is handed to scrape_page twice, and every URL of a batch is
\* in visited_urls from the moment it joins the batch, so before dispatch.
C4_NoDuplicateDispatch ==
    /\ NoDuplicates(dispatchLog)
    /\ Range(dispatchLog) \subseteq visited_urls
    /\ pc \in {"batching", "acquire", "gather", "results"} =>
          Range(current_batch) \subseteq visited_urls

\* C4 witness: /d was reported by two records and by a page of a later
\* batch than the one that first reported it, and was dispatched once.
C4_Witness ==
    /\ pc = "done"
    /\ UrlD \in Range(dispatchLog)
    /\ \E i, j \in 1..Len(scraped_data) :
          /\ i < j
          /\ UrlD \in scraped_data[i].links
          /\ UrlD \in scraped_data[j].links
    /\ \E i \in 1..Len(scraped_data) : UrlA \in scraped_data[i].links

\* C5: no two records of scraped_data have the same "url".
C5_OneRecordPerUrl ==
    \A i, j \in 1..Len(scraped_data) :
       i # j => scraped_data[i].url # scraped_data[j].url

\* C6: visited_urls and urls_to_visit are disjoint in every state.
C6_VisitedPendingDisjoint == visited_urls \cap urls_to_visit = {}

\* C6 witness: a handled result linked back to a visited URL while other
\* links of it went to urls_to_visit.
C6_Witness ==
    \E i \in 1..Len(results) :
       /\ Handled(i)
       /\ results[i].k = "rec"
       /\ results[i].links \cap visited_urls # {}
       /\ results[i].links \cap urls_to_visit # {}
       /\ Cardinality(visited_urls) >= 2

\* C7: a URL whose navigation fails yields no record; once the batch is
\* handled, scraped_data has grown by exactly the records of the tasks that
\* succeeded, each of them is in scraped_data and its unvisited same-netloc
\* links are in urls_to_visit; and a run that ends normally ends with
\* urls_to_visit empty or the budget reached.
C7_FailureIsolated ==
    /\ \A i \in 1..Len(results) :
          (results[i] # Pending /\ ~navLog[i]) => results[i] = NoRecord
    /\ (pc = "loop" /\ results # <<>>) =>
          /\ Len(scraped_data) = batchStart + Cardinality(Succeeded)
          /\ \A i \in Succeeded :
                /\ results[i] \in Range(scraped_data)
                /\ \A l \in results[i].links :
                      (netloc(l) = netloc(start_url) /\ l \notin visited_urls)
                         => l \in urls_to_visit
    /\ pc = "done" => (urls_to_visit = {} \/ Len(scraped_data) >= max_pages)

\* C7 witness: a batch of 3 with exactly one navigation failure has been
\* handled, it yielded 2 records, and the loop goes on to another batch.
C7_Witness ==
    /\ pc = "loop"
    /\ Len(current_batch) = 3
    /\ Cardinality({i \in 1..3 : ~navLog[i]}) = 1
    /\ Cardinality(Succeeded) = 2
    /\ Len(scraped_data) = batchStart + 2
    /\ LoopGuard(urls_to_visit, scraped_data, max_pages)

(***************************************************************************)
(* Properties of one scrape_page call (ExtractSpec).                       *)
(***************************************************************************)
\* The title strategies that yield a non-blank value on the page, stripped:
\* the h1 (when the page has one) and the two meta tags.
TitleFallbacks(pg) ==
    {strip(r.v) :
        r \in {r \in ({pg.ogTitle, pg.twTitle} \cup
                      (IF pg.h1count = Count(0) THEN {} ELSE {pg.h1text})) :
                  Truthy(r)}}

\* The titles the spec allows for the page.
ExpectedTitles(pg) ==
    IF Truthy(pg.title) THEN {strip(pg.title.v)}
    ELSE IF TitleFallbacks(pg) # {} THEN TitleFallbacks(pg)
    ELSE {UrlText(pg.finalUrl)}

\* No description strategy yields a non-blank value on the page.
NoDescription(pg) ==
    /\ \A r \in {pg.descStd, pg.descOg, pg.descTw} : ~Truthy(r)
    /\ pg.pcount = Count(0) \/ ~Truthy(pg.ptext)
    /\ \A i \in 1..Len(pg.metaScan) : ~Truthy(pg.metaScan[i])

\* get_page_title / get_page_description has been called.
TitleCalled == x_nav /\ x_pc \in {"description", "return", "done"}
DescCalled == x_nav /\ x_title.k = "val" /\ x_pc \in {"return", "done"}

\* C8: on a page that navigates, get_page_title returns a title: the
\* stripped title tag, else the stripped value of a fallback that yielded
\* one, else the page's URL; and a page without title tag and h1 (with or
\* without an og:title) yields a record carrying that title.
C8_TitleFallback ==
    /\ TitleCalled => x_title.k = "val" /\ x_title.v \in ExpectedTitles(x_page)
    /\ (x_pc = "done" /\ x_nav /\ ~Truthy(x_page.title)
          /\ x_page.h1count = Count(0) /\ x_page.pcount = Count(1)) =>
             x_data.k = "rec" /\ x_data.title \in ExpectedTitles(x_page)

\* C9: on a page that navigates and on which no description strategy
\* yields a value, get_page_description returns None and scrape_page
\* returns a record whose description is None.
C9_AbsentDescription ==
    (DescCalled /\ x_page.pcount.k = "val" /\ NoDescription(x_page)) =>
       /\ x_desc = NoneV
       /\ x_pc = "done" => x_data.k = "rec" /\ x_data.description = NoneV

\* C10: on a page that has an h1 and a paragraph, or on which counting them
\* throws, no throw of a strategy surfaces: scrape_page returns a record,
\* whose title is one the remaining strategies and fallbacks give.
C10_ThrowNeverSurfaces ==
    (x_pc = "done" /\ x_nav /\ x_page.h1count # Count(0)
        /\ x_page.pcount # Count(0)) =>
       x_data.k = "rec" /\ x_data.title \in ExpectedTitles(x_page)

(***************************************************************************)
(* PoolSpec: an AsyncPagePool used by an arbitrary client.  The pool is    *)
(* initialized once, as scrape_site does; then get_page, return_page of    *)
(* any page that is checked out, and cleanup happen in any order.  `pages` *)
(* holds the pages that are checked out.                                   *)
(***************************************************************************)
MaxHandles == 4     \* PoolSpec creates at most MaxHandles pages

PoolInit ==
    /\ pc = "initialize"
    /\ site = SiteScenario
    /\ max_pages = 1
    /\ batch_size = 1
    /\ pool_size \in 1..MaxPoolSize
    /\ visited_urls = {}
    /\ urls_to_visit = {}
    /\ scraped_data = <<>>
    /\ current_batch = <<>>
    /\ pages = <<>>
    /\ results = <<>>
    /\ idx = 0
    /\ pool_pages = <<>>
    /\ closed = {}
    /\ created = 0
    /\ dispatchLog = <<>>
    /\ batchStart = 0
    /\ navLog = <<>>
    /\ addedLog = {}
    /\ batchCreated = 0
    /\ inflight = {}
    /\ XIdle
    /\ SchedIdle
    /\ ScrollIdle

poolClientUnchanged ==
    UNCHANGED <<configVars, frontierVars, results, idx, historyVars,
                batchCreated, inflight, extractVars, schedVars, scrollVars>>

\* initialize() has returned: the pool is in use.
PoolReady ==
    /\ pc = "initialize"
    /\ Len(pool_pages) = pool_size
    /\ pc' = "pool"
    /\ UNCHANGED <<pages, poolVars>>
    /\ poolClientUnchanged

\* get_page(): an idle page if there is one, else a new page.
PoolGet ==
    /\ pc = "pool"
    /\ IF pool_pages # <<>>
       THEN /\ pages' = Append(pages, pool_pages[Len(pool_pages)])
            /\ pool_pages' = SubSeq(pool_pages, 1, Len(pool_pages) - 1)
            /\ UNCHANGED created
       ELSE /\ created < MaxHandles
            /\ created' = created + 1
            /\ pages' = Append(pages, created + 1)
            /\ UNCHANGED pool_pages
    /\ UNCHANGED <<pc, closed>>
    /\ poolClientUnchanged

\* return_page(page) of a page that is checked out.
PoolReturn ==
    /\ pc = "pool"
    /\ \E i \in 1..Len(pages) :
          LET r == ReturnPage(pool_pages, closed, pages[i], pool_size)
          IN /\ pool_pages' = r.idle
             /\ closed' = r.closed
             /\ pages' = SubSeq(pages, 1, i - 1) \o SubSeq(pages, i + 1, Len(pages))
    /\ UNCHANGED <<pc, created>>
    /\ poolClientUnchanged

\* cleanup()
PoolCleanup ==
    /\ pc = "pool"
    /\ closed' = closed \cup Range(pool_pages)
    /\ pool_pages' = <<>>
    /\ UNCHANGED <<pc, pages, created>>
    /\ poolClientUnchanged

PoolNext ==
    \/ InitializePage
    \/ PoolReady
    \/ PoolGet
    \/ PoolReturn
    \/ PoolCleanup

PoolSpec == PoolInit /\ [][PoolNext]_vars

(***************************************************************************)
(* Properties of the page handles (Spec, PoolSpec).                        *)
(***************************************************************************)
\* C11: a checked-out handle is used by one scrape_page only: the handles
\* of a batch are distinct and none of them is idle or closed, and no
\* strategy task still runs on a handle that is back in the idle list or
\* closed.
C11_ExclusiveHandle ==
    /\ pc \in {"acquire", "gather"} =>
          /\ NoDuplicates(pages)
          /\ Range(pages) \cap (Range(pool_pages) \cup closed) = {}
    /\ inflight \cap (Range(pool_pages) \cup closed) = {}

\* A step of return_page(h): h leaves the checked-out pages.
ReturnStepOf(h) ==
    /\ h \in Range(pages)
    /\ Len(pages') = Len(pages) - 1
    /\ Range(pages') \subseteq Range(pages)

Reused == {i \in 1..Len(pages) : pages[i] <= batchCreated}
OnDemand == {i \in 1..Len(pages) : pages[i] > batchCreated}

\* C13: once the handles of a batch of M > pool_size URLs are acquired, at
\* most pool_size of them came from the idle list and at least
\* M - pool_size were created on demand; and get_page never waits: with
\* the idle list empty it can create a page.
C13_PoolReuseBound ==
    /\ (pc = "gather" /\ Len(current_batch) > pool_size) =>
          /\ Cardinality(Reused) <= pool_size
          /\ Cardinality(OnDemand) + pool_size >= Len(current_batch)
    /\ (pc = "acquire" /\ idx <= Len(current_batch) /\ pool_pages = <<>>) =>
          ENABLED GetPageNew

\* C13 witness: a batch of 3 on a pool of 2: two handles reused, one
\* created on demand.
C13_Witness ==
    /\ pc = "gather"
    /\ Len(current_batch) = 3
    /\ pool_size = 2
    /\ Cardinality(Reused) = 2
    /\ Cardinality(OnDemand) = 1

\* C14: every handle acquired for a batch has been passed to return_page
\* (and so is idle or closed) once the batch is over, and is closed once
\* the run has ended, whether normally or by a creation error.
C14_AllReleased ==
    /\ pc = "loop" => Range(pages) \subseteq Range(pool_pages) \cup closed
    /\ pc \in {"done", "failed"} => Range(pages) \subseteq closed

\* C15: when the run has ended, normally or by a creation error during
\* initialize() or during the acquisition of a batch, the idle list is
\* empty and every page that was in it is closed.
C15_PoolShutDown ==
    pc \in {"done", "failed", "crashed"} =>
       /\ pool_pages = <<>>
       /\ \A h \in 1..created : h \in closed \/ h \in Range(pages)

\* The pages created and not closed.
OpenPages == (1..created) \ closed

Max(a, b) == IF a >= b THEN a ELSE b

\* C20: the pages created and not closed never number more than
\* max(pool_size, batch_size), and exactly pool_size between batches once
\* a batch has been handled.
C20_OpenPagesBound ==
    /\ Cardinality(OpenPages) <= Max(pool_size, batch_size)
    /\ (pc = "loop" /\ results # <<>>) => Cardinality(OpenPages) = pool_size

\* C20 witness: a batch larger than the pool has been handled: pages were
\* closed by return_page and pool_size pages remain open.
C20_Witness ==
    /\ pc = "loop"
    /\ Len(current_batch) > pool_size
    /\ closed # {}
    /\ Cardinality(OpenPages) = pool_size

(***************************************************************************)
(* The scenario of the spec, a run of Spec: the site where /a links to /b, *)
(* to itself and to https://y.test/c and /b links nowhere, crawled with    *)
(* max_pages = 10 and batch_size = 2.                                      *)
(***************************************************************************)
Scenario ==
    /\ site = SiteScenario
    /\ max_pages = ScenarioMaxPages
    /\ batch_size = 2

\* Every URL dispatched so far yielded a record; on the scenario's site,
\* whose pages all have a title and a paragraph, that is: every navigation
\* so far succeeded.
AllSucceeded == Len(scraped_data) = Len(dispatchLog)

\* C16: in the scenario no y.test URL is ever dispatched or visited, and a
\* run in which every navigation succeeds ends with
\* visited_urls = {https://x.test/a, https://x.test/b} and 2 records.
C16_Scenario ==
    Scenario =>
       /\ \A u \in Range(dispatchLog) \cup visited_urls : u.host # "y.test"
       /\ (pc = "done" /\ AllSucceeded) =>
             /\ visited_urls = {UrlA, UrlB}
             /\ Len(scraped_data) = 2

\* C16 witness: the scenario run has ended with every navigation succeeded.
C16_Witness ==
    /\ Scenario
    /\ pc = "done"
    /\ AllSucceeded
    /\ dispatchLog = <<UrlA, UrlB>>
    /\ UrlYC \in scraped_data[1].links

(***************************************************************************)
(* scroll_to_bottom on its own: the page's measured heights are drawn      *)
(* afresh at every measurement, and any page.evaluate may raise.           *)
(***************************************************************************)
MaxScrolls == 3         \* max_scrolls is drawn from 1..MaxScrolls
MaxHeight == 3          \* a measured scrollHeight is drawn from 0..MaxHeight

Heights == 0..MaxHeight

\* while scroll_count < max_scrolls
ScrollGuard_Inclusive(count, ceiling) == count <= ceiling

ScrollGuard(count, ceiling) == count < ceiling

\* if new_height == last_height: break
Converged(new, last) == new = last

ScrollInit ==
    /\ CrawlIdle
    /\ XIdle
    /\ SchedIdle
    /\ sc_pc = "start"
    /\ max_scrolls \in 1..MaxScrolls
    /\ last_height = 0
    /\ new_height = 0
    /\ scroll_count = 0
    /\ scrolls = <<>>

scrollRest == <<crawlVars, extractVars, schedVars, max_scrolls>>

\* last_height = await page.evaluate("document.body.scrollHeight")
ScrollFirstMeasure ==
    /\ sc_pc = "start"
    /\ \E h \in Heights :
          /\ last_height' = h
          /\ scrolls' = <<h>>
    /\ sc_pc' = "loop"
    /\ UNCHANGED <<new_height, scroll_count, scrollRest>>

\* One pass of the loop body up to the measurement: scrollTo, sleep, measure.
ScrollStep ==
    /\ sc_pc = "loop"
    /\ ScrollGuard(scroll_count, max_scrolls)
    /\ \E h \in Heights :
          /\ new_height' = h
          /\ scrolls' = Append(scrolls, h)
    /\ sc_pc' = "compare"
    /\ UNCHANGED <<last_height, scroll_count, scrollRest>>

\* The rest of the loop body: break on an unchanged height, else count.
ScrollCompare ==
    /\ sc_pc = "compare"
    /\ IF Converged(new_height, last_height)
       THEN /\ sc_pc' = "done"
            /\ UNCHANGED <<last_height, scroll_count>>
       ELSE /\ sc_pc' = "loop"
            /\ last_height' = new_height
            /\ scroll_count' = scroll_count + 1
    /\ UNCHANGED <<new_height, scrolls, scrollRest>>

\* The loop condition fails: the attempt ceiling is reached.
ScrollCeiling ==
    /\ sc_pc = "loop"
    /\ ~ScrollGuard(scroll_count, max_scrolls)
    /\ sc_pc' = "done"
    /\ UNCHANGED <<last_height, new_height, scroll_count, scrolls, scrollRest>>

\* A page.evaluate raises; scroll_to_bottom has no handler.
ScrollRaises ==
    /\ \/ sc_pc = "start"
       \/ sc_pc = "loop" /\ ScrollGuard(scroll_count, max_scrolls)
    /\ sc_pc' = "raised"
    /\ UNCHANGED <<last_height, new_height, scroll_count, scrolls, scrollRest>>

ScrollNext ==
    \/ ScrollFirstMeasure
    \/ ScrollStep
    \/ ScrollCompare
    \/ ScrollCeiling
    \/ ScrollRaises

\* The event loop keeps running the coroutine: a step that can be taken is.
ScrollSpec == ScrollInit /\ [][ScrollNext]_vars /\ WF_vars(ScrollNext)

\* The scroll actions performed so far.
ScrollActions == IF scrolls = <<>> THEN 0 ELSE Len(scrolls) - 1

ScrollEnded == sc_pc \in {"done", "raised"}

\* The scroll whose measurement is scrolls[k] ended the function.
StoppedAt(k) == k = Len(scrolls) /\ sc_pc \in {"compare", "done"}

\* C19 (as stated): at most max_scrolls scroll actions are performed, and
\* the function stops after the first scroll whose measured height has not
\* grown (is less than or equal to the previous measurement).
C19_StopsWhenNotGrown ==
    /\ ScrollActions <= max_scrolls
    /\ \A k \in 2..Len(scrolls) : scrolls[k] <= scrolls[k-1] => StoppedAt(k)

\* C19 (amended): scroll_to_bottom always ends; it performs at most
\* max_scrolls scroll actions; it stops after the first scroll whose
\* measured height equals the previous measurement, and a smaller height
\* does not stop it; it returns only on such a scroll or at the ceiling.
C19_StopsWhenUnchanged ==
    /\ <>ScrollEnded
    /\ [](ScrollActions <= max_scrolls)
    /\ [](\A k \in 2..Len(scrolls) :
             /\ scrolls[k] = scrolls[k-1] => StoppedAt(k)
             /\ (scrolls[k] # scrolls[k-1] /\ sc_pc = "done") =>
                   (k < Len(scrolls) \/ ScrollActions = max_scrolls))
    /\ [](sc_pc = "done" =>
             \/ ScrollActions = max_scrolls
             \/ /\ Len(scrolls) >= 2
                /\ scrolls[Len(scrolls)] = scrolls[Len(scrolls) - 1])

\* C19 witness: a run whose height shrank, went on scrolling, and ended
\* below the ceiling on an unchanged height.
C19_Witness ==
    /\ sc_pc = "done"
    /\ Len(scrolls) = 3
    /\ scrolls[2] < scrolls[1]
    /\ scrolls[3] = scrolls[2]
    /\ ScrollActions < max_scrolls

(***************************************************************************)
(* scheduler.py: run_immediate_scrape runs one scrape job per selected     *)
(* website, one after the other; each job is a whole run of scrape_site.   *)
(***************************************************************************)
NumWebsites == 2        \* the length of websites.json's list

WebsiteNames == <<"s1", "s2", "s3", "s4">>

\* general_config['scraper']: max_pages, batch_size and the pool's size
DefaultMaxPages == 3
DefaultBatchSize == 2
DefaultPoolSize == 1

\* A website's max_pages key may be missing; 0 stands for the missing key.
Websites ==
    {ws \in [1..NumWebsites -> [name : Range(WebsiteNames), enabled : BOOLEAN,
                                max_pages : {0, 1}]] :
        \A i \in 1..NumWebsites : ws[i].name = WebsiteNames[i]}

\* site_config.get('max_pages', general_config['scraper']['max_pages'])
SiteMaxPages(w) == IF w.max_pages = 0 THEN DefaultMaxPages ELSE w.max_pages

\* [w for w in websites if w['enabled']]
EnabledWebsites(ws) ==
    LET F[i \in 0..Len(ws)] ==
            IF i = 0 THEN <<>>
            ELSE IF ws[i].enabled THEN Append(F[i-1], ws[i]) ELSE F[i-1]
    IN F[Len(ws)]

\* next((w for w in websites if w['name'] == website_name and w['enabled']), None)
FindWebsite(ws, name) ==
    LET hits == {i \in 1..Len(ws) : ws[i].name = name /\ ws[i].enabled}
    IN IF hits = {} THEN <<>>
       ELSE <<ws[CHOOSE i \in hits : \A j \in hits : i <= j]>>

\* scrape_job without its try/except: the error of scrape_site propagates.
scrape_job_NoExcept(name, ok) ==
    IF ok THEN [msg |-> <<[site |-> name, text |-> "Completed"]>>, raised |-> FALSE]
    ELSE [msg |-> <<>>, raised |-> TRUE]

\* scrape_job after scrape_site ended: what it prints, whether it raises.
scrape_job(name, ok) ==
    [msg |-> <<[site |-> name, text |-> IF ok THEN "Completed" ELSE "Error"]>>,
     raised |-> FALSE]

SchedInit ==
    /\ CrawlIdle
    /\ XIdle
    /\ ScrollIdle
    /\ s_pc = "select"
    /\ s_sites \in Websites
    /\ s_name \in {""} \cup {WebsiteNames[i] : i \in 1..NumWebsites}
    /\ s_websites = <<>>
    /\ s_i = 0
    /\ s_log = <<>>

schedRest == <<extractVars, scrollVars, s_name, s_sites>>

\* The selection of the websites to scrape, and the two early returns.
SelectWebsites ==
    /\ s_pc = "select"
    /\ LET websites == IF s_name # "" THEN FindWebsite(s_sites, s_name)
                       ELSE EnabledWebsites(s_sites)
       IN /\ s_websites' = websites
          /\ s_pc' = IF websites = <<>> THEN "returned" ELSE "loop"
          /\ s_log' = IF websites = <<>>
                      THEN <<[site |-> s_name, text |-> "NotFound"]>>
                      ELSE s_log
    /\ s_i' = 1
    /\ UNCHANGED <<crawlVars, schedRest>>

\* for website in websites: the job is created and called; it prints
\* "Starting" and calls scrape_site(url, max_pages=...), whose first
\* statements build the frontier's and the pool's empty state.
JobStart ==
    /\ s_pc = "loop"
    /\ s_i <= Len(s_websites)
    /\ s_pc' = "job"
    /\ s_log' = Append(s_log, [site |-> s_websites[s_i].name, text |-> "Starting"])
    /\ pc' = "initialize"
    /\ site' = SiteWide
    /\ max_pages' = SiteMaxPages(s_websites[s_i])
    /\ batch_size' = DefaultBatchSize
    /\ pool_size' = DefaultPoolSize
    /\ visited_urls' = {}
    /\ urls_to_visit' = {}
    /\ scraped_data' = <<>>
    /\ current_batch' = <<>>
    /\ pages' = <<>>
    /\ results' = <<>>
    /\ idx' = 0
    /\ pool_pages' = <<>>
    /\ closed' = {}
    /\ created' = 0
    /\ dispatchLog' = <<>>
    /\ batchStart' = 0
    /\ navLog' = <<>>
    /\ addedLog' = {}
    /\ batchCreated' = 0
    /\ inflight' = {}
    /\ UNCHANGED <<s_websites, s_i, schedRest>>

\* scrape_site returned or raised: the job prints its message and the for
\* loop moves on, or the error leaves run_immediate_scrape.
JobEnd ==
    /\ s_pc = "job"
    /\ pc \in {"done", "failed", "crashed"}
    /\ LET r == scrape_job(s_websites[s_i].name, pc = "done")
       IN /\ s_log' = s_log \o r.msg
          /\ s_pc' = IF r.raised THEN "raised" ELSE "loop"
          /\ s_i' = IF r.raised THEN s_i ELSE s_i + 1
    /\ UNCHANGED <<crawlVars, s_websites, schedRest>>

\* The for loop is exhausted.
JobsDone ==
    /\ s_pc = "loop"
    /\ s_i > Len(s_websites)
    /\ s_pc' = "returned"
    /\ UNCHANGED <<crawlVars, s_websites, s_i, s_log, schedRest>>

SchedNext ==
    \/ SelectWebsites
    \/ JobStart
    \/ JobEnd
    \/ JobsDone
    \/ Next

SchedSpec == SchedInit /\ [][SchedNext]_vars

\* The "Starting" messages printed so far, in order.
Started == SelectSeq(s_log, LAMBDA m : m.text = "Starting")

\* The positions of the enabled websites in the configured list.
EnabledAt == {i \in 1..Len(s_sites) : s_sites[i].enabled}

\* The job whose crawl ended last reported it: "Completed" after a return
\* of scrape_site, "Error" after an error raised inside it.
LastReported ==
    s_log[Len(s_log)] =
       [site |-> s_websites[s_i - 1].name,
        text |-> IF pc = "done" THEN "Completed" ELSE "Error"]

\* C17: in run_immediate_scrape over all websites no error of scrape_site
\* leaves a job: it is printed as a message; a job starts only after the
\* previous one ended, whether that one completed or failed; and when the
\* function returns, one job was started for every enabled website, in the
\* order of the list.
C17_SiblingsRun ==
    /\ s_pc # "raised"
    /\ \A k \in 2..Len(s_log) :
          s_log[k].text = "Starting" => s_log[k-1].text \in {"Completed", "Error"}
    /\ (s_pc = "loop" /\ s_i > 1) => LastReported
    /\ (s_pc = "returned" /\ s_name = "") =>
          /\ Len(Started) = Cardinality(EnabledAt)
          /\ \A i \in EnabledAt :
                Started[Cardinality({j \in EnabledAt : j <= i})].site = s_sites[i].name

\* C17 witness: the first website's crawl raised, the second website's
\* crawl still ran and completed, and the function returned.
C17_Witness ==
    /\ s_pc = "returned"
    /\ s_name = ""
    /\ Len(s_log) = 4
    /\ s_log[2] = [site |-> "s1", text |-> "Error"]
    /\ s_log[4] = [site |-> "s2", text |-> "Completed"]

(***************************************************************************)
(* Termination of scrape_site, by a measure: a natural number that every   *)
(* step of the crawl lowers.  The URLs not yet visited weigh most (a batch *)
(* keeps the weight of its URLs until its last result is handled), then    *)
(* the position in the loop body.                                          *)
(***************************************************************************)
Ended == pc \in {"done", "failed", "crashed"}

PendingResults == Cardinality({i \in 1..Len(results) : results[i] = Pending})

InBatch == pc \in {"batching", "acquire", "gather", "results"}

Rank ==
    CASE pc = "initialize" -> 60 + (pool_size - Len(pool_pages))
      [] pc = "loop" -> 50
      [] pc = "batching" -> 40 + Cardinality(urls_to_visit)
      [] pc = "acquire" -> 30 + (Len(current_batch) + 1 - idx)
      [] pc = "gather" -> 20 + PendingResults
      [] pc = "results" -> 10 + (Len(current_batch) + 1 - idx)
      [] pc \in {"cleanup", "cleanup_error"} -> 5
      [] OTHER -> 0

Variant ==
    100 * (Cardinality(Urls \ visited_urls) + IF InBatch THEN Len(current_batch) ELSE 0)
       + Rank

\* TaskDone can be taken: a task has not ended, and its page's races have
\* an outcome.
TaskCanEnd ==
    /\ pc = "gather"
    /\ \E i \in 1..Len(current_batch) :
          /\ results[i] = Pending
          /\ TitleRaces(site[current_batch[i]]) # {}
          /\ DescRaces(site[current_batch[i]]) # {}

\* Some step of Next can be taken.
CanStep ==
    \/ ENABLED (InitializePage \/ InitializeFails \/ EnterTry \/ LoopHead
                   \/ PopUrl \/ BatchFormed \/ GetPageIdle \/ GetPageNew
                   \/ GetPageFails \/ Gather \/ GatherReturns
                   \/ HandleResult \/ Cleanup)
    \/ TaskCanEnd

BudgetOrEmpty == urls_to_visit = {} \/ Len(scraped_data) >= max_pages

BatchInBounds == 1 <= Len(current_batch) /\ Len(current_batch) <= batch_size

\* C18 (as stated): a run that ends has reached Done; the loop is left only
\* with pending empty or the budget reached; every dispatched batch has
\* between 1 and batch_size URLs.
C18_EndsAtDone ==
    /\ Ended => pc = "done"
    /\ pc \in {"cleanup", "cleanup_error", "done", "failed"} => BudgetOrEmpty
    /\ pc \in {"acquire", "gather", "results"} => BatchInBounds

\* C18 (amended): every run ends: before the end a step is always possible
\* and every step lowers Variant, a natural number.  The run ends at Done,
\* or with the error of a browser.new_page() that failed; the loop is left
\* for Done only with pending empty or the budget reached, and otherwise
\* only by such a failure; every dispatched batch has between 1 and
\* batch_size URLs.
C18_Terminates ==
    /\ [](~Ended => CanStep)
    /\ [](Variant \in Nat)
    /\ [][Variant' < Variant]_vars
    /\ [](pc \in {"cleanup", "done"} => BudgetOrEmpty)
    /\ [][(pc' \in {"crashed", "cleanup_error"} /\ pc' # pc) =>
             InitializeFails \/ GetPageFails]_vars
    /\ [](pc \in {"acquire", "gather", "results"} => BatchInBounds)

\* C18 witness: a run that ended at Done on the budget, with URLs still
\* pending, after a batch of batch_size URLs.
C18_Witness ==
    /\ pc = "done"
    /\ urls_to_visit # {}
    /\ Len(scraped_data) >= max_pages
    /\ batch_size >= 2
    /\ Len(current_batch) = batch_size

====
